---- MODULE Spec2Model ----
(***************************************************************************)
(* Model of ResNet152.py: the training script's checkpointing loops        *)
(* (initial training, load of the best checkpoint, fine-tuning), the       *)
(* CosineAnnealingWarmupRestarts learning-rate scheduler and the Cutout    *)
(* augmentation.                                                           *)
(*                                                                         *)
(* Abstractions.                                                           *)
(*  - A parameter set (model.state_dict()) is the sequence of the          *)
(*    optimizer epochs that produced it: training one epoch through an     *)
(*    optimizer appends that optimizer's name, so two parameter sets are   *)
(*    equal only when they have the same history.                          *)
(*  - A validation accuracy is an integer level 0..MaxAcc (the script's    *)
(*    100 * correct / total; level 0 is 0.0).                              *)
(*  - Learning rates are exact rationals <<n, d>> in lowest terms.         *)
(*    math.cos is replaced by Bhaskara's rational approximation after the  *)
(*    usual range reduction; it is exact at the multiples of pi/3 and      *)
(*    pi/2, even, 2*pi-periodic and strictly decreasing on [0, pi].        *)
(***************************************************************************)
EXTENDS Integers, Sequences, FiniteSets, TLC

VARIABLES pc, epoch, acc, best_acc, model, files,
          optimizer, scheduler, finetune_optimizer, finetune_scheduler,
          saves, lastSave, loadedFrom, maxAcc, argmaxModel,
          lrs,
          img, cutout, out

vars == <<pc, epoch, acc, best_acc, model, files,
          optimizer, scheduler, finetune_optimizer, finetune_scheduler,
          saves, lastSave, loadedFrom, maxAcc, argmaxModel,
          lrs, img, cutout, out>>

trainVars == <<epoch, acc, best_acc, model, files,
               finetune_optimizer, finetune_scheduler,
               saves, lastSave, loadedFrom, maxAcc, argmaxModel>>

cutoutVars == <<img, cutout, out>>

(***************************************************************************)
(* Bounds                                                                  *)
(***************************************************************************)
\* accuracy levels returned by validate(): 0..MaxAcc
MaxAcc == 2
\* scheduler parameters of the parametric scheduler specification
MaxT0 == 4
MaxLr == 2
\* scheduler.step() calls made after T_0 in the parametric specification
ExtraSteps == 3
\* Cutout: image sides 1..MaxSide, channels 1..MaxChan, length 0..MaxLength
MaxSide == 4
MaxChan == 2
MaxLength == 4

(***************************************************************************)
(* Script constants                                                        *)
(***************************************************************************)
num_epochs == 70
fine_tune_epochs == 15

WEIGHTS_BEST == "resnet152_cifar10_weights_best.pt"
FINETUNED_BEST == "resnet152_cifar10_finetuned_best.pt"
FileNames == {WEIGHTS_BEST, FINETUNED_BEST}

\* a file that does not exist / an object not yet constructed
NoFile == <<"absent">>
\* no file has been written / read yet
NoName == "none"
NoObj == [absent |-> TRUE]
\* parameters written by an earlier run of the script
EarlierRun == <<"earlier_run">>
\* model = ResNet152().to(device): freshly initialised parameters
FreshModel == <<>>

(***************************************************************************)
(* Exact rational arithmetic for learning rates                            *)
(***************************************************************************)
Abs(n) == IF n < 0 THEN -n ELSE n

RECURSIVE GCD(_, _)
GCD(a, b) == IF b = 0 THEN a ELSE GCD(b, a % b)

Rat(n, d) == LET g == GCD(Abs(n), d) IN <<n \div g, d \div g>>
RatAdd(p, q) == Rat(p[1] * q[2] + q[1] * p[2], p[2] * q[2])
RatSub(p, q) == Rat(p[1] * q[2] - q[1] * p[2], p[2] * q[2])
RatMul(p, q) == Rat(p[1] * q[1], p[2] * q[2])
RatDivInt(p, n) == Rat(p[1], p[2] * n)
RatLeq(p, q) == p[1] * q[2] <= q[1] * p[2]

\* math.cos(math.pi * k / n) for integers k >= 0, n > 0
CosPi(k, n) ==
    LET r == k % (2 * n)                        \* period 2*pi
        m == IF r > n THEN 2 * n - r ELSE r     \* cos(2*pi - x) = cos(x)
        neg == 2 * m > n                        \* cos(x) = -cos(pi - x)
        j == IF neg THEN n - m ELSE m
        c == Rat(n * n - 4 * j * j, n * n + j * j)
    IN  IF neg THEN <<-c[1], c[2]>> ELSE c

(***************************************************************************)
(* Optimizer and scheduler objects                                         *)
(***************************************************************************)
\* optim.AdamW(model.parameters(), lr=lr, ...): one parameter group.
\* name identifies the instance; epochs counts the training epochs whose
\* optimizer.step() calls went through it.
AdamW(name, lr) == [name |-> name, lr |-> lr, epochs |-> 0]

\* variant: eta_max = 0.01 passed to the first scheduler
scheduler_eta_max_Higher == <<1, 100>>

\* lr / eta_max literals of the script
optimizer_lr == <<1, 1000>>
scheduler_eta_max == <<1, 1000>>
finetune_optimizer_lr == <<1, 10000>>
finetune_scheduler_eta_max == <<1, 10000>>

\* variant: the cosine phase divides by the whole cycle length T_i
get_lr_WholeCycle(s) ==
    IF s.last_epoch < s.T_up
    THEN RatAdd(s.base_lr,
                RatDivInt(RatMul(RatSub(s.eta_max, s.base_lr), <<s.last_epoch, 1>>),
                          s.T_up))
    ELSE RatAdd(s.base_lr,
                RatMul(RatMul(<<1, 2>>, RatSub(s.eta_max, s.base_lr)),
                       RatAdd(<<1, 1>>, CosPi(s.last_epoch - s.T_up, s.T_i))))

\* CosineAnnealingWarmupRestarts.get_lr for the single parameter group
get_lr(s) ==
    IF s.last_epoch < s.T_up
    THEN \* Warmup phase
         RatAdd(s.base_lr,
                RatDivInt(RatMul(RatSub(s.eta_max, s.base_lr), <<s.last_epoch, 1>>),
                          s.T_up))
    ELSE \* Cosine annealing phase: cos_inner = (last_epoch - T_up) / (T_i - T_up)
         RatAdd(s.base_lr,
                RatMul(RatMul(<<1, 2>>, RatSub(s.eta_max, s.base_lr)),
                       RatAdd(<<1, 1>>, CosPi(s.last_epoch - s.T_up, s.T_i - s.T_up))))

\* CosineAnnealingWarmupRestarts.__init__ followed by the base class's
\* constructor: base_lrs is the optimizer's lr, last_epoch is -1 and the
\* initial step() brings it to 0.
NewScheduler(name, o, T_0, T_mult, eta_max, T_up, gamma) ==
    [name |-> name, optimizer |-> o.name,
     T_0 |-> T_0, T_mult |-> T_mult, base_eta_max |-> eta_max, eta_max |-> eta_max,
     T_up |-> T_up, gamma |-> gamma, cycle |-> 0, T_i |-> T_0,
     base_lr |-> o.lr, last_epoch |-> 0]

\* _LRScheduler.step(): last_epoch += 1 (the class does not override step)
StepEpoch(s) == [s EXCEPT !.last_epoch = @ + 1]

\* ... and the value of get_lr() is stored in the optimizer's parameter group
SetLr(o, s) == [o EXCEPT !.lr = get_lr(s)]

\* train(epoch) / finetune(epoch): every batch is stepped through optimizer o
TrainEpoch(m, o) == Append(m, o.name)
Stepped(o) == [o EXCEPT !.epochs = @ + 1]

\* torch.save(model.state_dict(), f)
Save(fs, f, m) == [fs EXCEPT ![f] = m]

(***************************************************************************)
(* The script: initial training, load, fine-tuning                         *)
(***************************************************************************)
\* the file the initial-training loop saves to (line 268) and the file the
\* load reads (line 278)
TrainSaveFile == WEIGHTS_BEST
LoadFile == WEIGHTS_BEST

\* variant: fine-tuning saves over the initial-training checkpoint
FinetuneSaveFile_Same == WEIGHTS_BEST

\* the file the fine-tuning loop saves to (line 341)
FinetuneSaveFile == FINETUNED_BEST

\* variants: compare with the initial best_acc of 0 / accept an equal accuracy
Improved_OverZero(a, b) == a > 0
Improved_OrEqual(a, b) == a >= b

\* acc > best_acc
Improved(a, b) == a > b

Accs == 0 .. MaxAcc

InitTrain ==
    /\ pc = "train"
    /\ epoch = 0
    /\ acc = 0
    /\ best_acc = 0
    /\ model = FreshModel
    /\ files \in { [f \in FileNames |-> NoFile],
                   [f \in FileNames |-> IF f = WEIGHTS_BEST THEN EarlierRun ELSE NoFile],
                   [f \in FileNames |-> EarlierRun] }
    /\ scheduler = NewScheduler("scheduler", AdamW("optimizer", optimizer_lr),
                                60, 1, scheduler_eta_max, 10, <<1, 2>>)
    /\ optimizer = SetLr(AdamW("optimizer", optimizer_lr), scheduler)
    /\ finetune_optimizer = NoObj
    /\ finetune_scheduler = NoObj
    /\ saves = 0
    /\ lastSave = NoName
    /\ loadedFrom = NoName
    /\ maxAcc = -1
    /\ argmaxModel = FreshModel
    /\ lrs = <<>>
    /\ img = <<>>
    /\ cutout = NoObj
    /\ out = <<>>

\* train(epoch), line 261
Train ==
    /\ pc = "train"
    /\ model' = TrainEpoch(model, optimizer)
    /\ optimizer' = Stepped(optimizer)
    /\ pc' = "validate"
    /\ UNCHANGED <<epoch, acc, best_acc, files, scheduler, finetune_optimizer,
                   finetune_scheduler, saves, lastSave, loadedFrom, maxAcc,
                   argmaxModel, lrs, cutoutVars>>

\* acc = validate(epoch), line 262.  maxAcc / argmaxModel record the highest
\* accuracy validated so far and the parameters of the first epoch that had it.
Validate ==
    /\ pc = "validate"
    /\ \E a \in Accs :
         /\ acc' = a
         /\ maxAcc' = IF a >= maxAcc THEN a ELSE maxAcc
         /\ argmaxModel' = IF a <= maxAcc THEN argmaxModel ELSE model
    /\ pc' = "step"
    /\ UNCHANGED <<epoch, best_acc, model, files, optimizer, scheduler,
                   finetune_optimizer, finetune_scheduler, saves, lastSave,
                   loadedFrom, lrs, cutoutVars>>

\* scheduler.step(), line 263
SchedulerStep ==
    /\ pc = "step"
    /\ scheduler' = StepEpoch(scheduler)
    /\ optimizer' = SetLr(optimizer, scheduler')
    /\ pc' = "check"
    /\ UNCHANGED <<trainVars, lrs, cutoutVars>>

\* lines 266-269, then the loop header of line 260
Checkpoint ==
    /\ pc = "check"
    /\ IF Improved(acc, best_acc)
       THEN /\ best_acc' = acc
            /\ files' = Save(files, TrainSaveFile, model)
            /\ saves' = saves + 1
            /\ lastSave' = TrainSaveFile
       ELSE UNCHANGED <<best_acc, files, saves, lastSave>>
    /\ IF epoch + 1 < num_epochs
       THEN /\ epoch' = epoch + 1
            /\ pc' = "train"
       ELSE /\ epoch' = epoch
            /\ pc' = "load"
    /\ UNCHANGED <<acc, model, optimizer, scheduler, finetune_optimizer,
                   finetune_scheduler, loadedFrom, maxAcc, argmaxModel, lrs,
                   cutoutVars>>

\* variant: a missing file is skipped and the script goes on
Load_OrKeep ==
    /\ pc = "load"
    /\ IF files[LoadFile] = NoFile
       THEN /\ pc' = "ft_setup"
            /\ UNCHANGED <<model, loadedFrom>>
       ELSE /\ model' = files[LoadFile]
            /\ loadedFrom' = LoadFile
            /\ pc' = "ft_setup"
    /\ UNCHANGED <<epoch, acc, best_acc, files, optimizer, scheduler,
                   finetune_optimizer, finetune_scheduler, saves, lastSave,
                   maxAcc, argmaxModel, lrs, cutoutVars>>

\* model.load_state_dict(torch.load(...)), line 278: torch.load raises when
\* the file does not exist, and nothing catches it
Load ==
    /\ pc = "load"
    /\ IF files[LoadFile] = NoFile
       THEN /\ pc' = "failed"
            /\ UNCHANGED <<model, loadedFrom>>
       ELSE /\ model' = files[LoadFile]
            /\ loadedFrom' = LoadFile
            /\ pc' = "ft_setup"
    /\ UNCHANGED <<epoch, acc, best_acc, files, optimizer, scheduler,
                   finetune_optimizer, finetune_scheduler, saves, lastSave,
                   maxAcc, argmaxModel, lrs, cutoutVars>>

\* lines 295-298, then the loop header of line 333
FinetuneSetup ==
    /\ pc = "ft_setup"
    /\ finetune_scheduler' =
          NewScheduler("finetune_scheduler", AdamW("finetune_optimizer", finetune_optimizer_lr),
                       30, 1, finetune_scheduler_eta_max, 5, <<1, 2>>)
    /\ finetune_optimizer' =
          SetLr(AdamW("finetune_optimizer", finetune_optimizer_lr), finetune_scheduler')
    /\ epoch' = 0
    /\ pc' = "ft_train"
    /\ UNCHANGED <<acc, best_acc, model, files, optimizer, scheduler, saves,
                   lastSave, loadedFrom, maxAcc, argmaxModel, lrs, cutoutVars>>

\* finetune(epoch), line 334
Finetune ==
    /\ pc = "ft_train"
    /\ model' = TrainEpoch(model, finetune_optimizer)
    /\ finetune_optimizer' = Stepped(finetune_optimizer)
    /\ pc' = "ft_validate"
    /\ UNCHANGED <<epoch, acc, best_acc, files, optimizer, scheduler,
                   finetune_scheduler, saves, lastSave, loadedFrom, maxAcc,
                   argmaxModel, lrs, cutoutVars>>

\* acc = finetune_validate(epoch), line 335
FinetuneValidate ==
    /\ pc = "ft_validate"
    /\ \E a \in Accs :
         /\ acc' = a
         /\ maxAcc' = IF a >= maxAcc THEN a ELSE maxAcc
         /\ argmaxModel' = IF a <= maxAcc THEN argmaxModel ELSE model
    /\ pc' = "ft_step"
    /\ UNCHANGED <<epoch, best_acc, model, files, optimizer, scheduler,
                   finetune_optimizer, finetune_scheduler, saves, lastSave,
                   loadedFrom, lrs, cutoutVars>>

\* variant: the fine-tuning loop steps the first scheduler
FinetuneSchedulerStep_First ==
    /\ pc = "ft_step"
    /\ scheduler' = StepEpoch(scheduler)
    /\ optimizer' = SetLr(optimizer, scheduler')
    /\ pc' = "ft_check"
    /\ UNCHANGED <<trainVars, lrs, cutoutVars>>

\* finetune_scheduler.step(), line 336
FinetuneSchedulerStep ==
    /\ pc = "ft_step"
    /\ finetune_scheduler' = StepEpoch(finetune_scheduler)
    /\ finetune_optimizer' = SetLr(finetune_optimizer, finetune_scheduler')
    /\ pc' = "ft_check"
    /\ UNCHANGED <<epoch, acc, best_acc, model, files, optimizer, scheduler,
                   saves, lastSave, loadedFrom, maxAcc, argmaxModel, lrs,
                   cutoutVars>>

\* lines 339-342, then the loop header of line 333
FinetuneCheckpoint ==
    /\ pc = "ft_check"
    /\ IF Improved(acc, best_acc)
       THEN /\ best_acc' = acc
            /\ files' = Save(files, FinetuneSaveFile, model)
            /\ saves' = saves + 1
            /\ lastSave' = FinetuneSaveFile
       ELSE UNCHANGED <<best_acc, files, saves, lastSave>>
    /\ IF epoch + 1 < fine_tune_epochs
       THEN /\ epoch' = epoch + 1
            /\ pc' = "ft_train"
       ELSE /\ epoch' = epoch
            /\ pc' = "done"
    /\ UNCHANGED <<acc, model, optimizer, scheduler, finetune_optimizer,
                   finetune_scheduler, loadedFrom, maxAcc, argmaxModel, lrs,
                   cutoutVars>>

Next ==
    \/ Train
    \/ Validate
    \/ SchedulerStep
    \/ Checkpoint
    \/ Load
    \/ FinetuneSetup
    \/ Finetune
    \/ FinetuneValidate
    \/ FinetuneSchedulerStep
    \/ FinetuneCheckpoint

Spec == InitTrain /\ [][Next]_vars

(***************************************************************************)
(* The scheduler on its own, for any construction arguments                *)
(***************************************************************************)
LrValues == { Rat(n, 1000) : n \in 0 .. MaxLr }

\* optimizer = AdamW(lr = base); scheduler = CosineAnnealingWarmupRestarts(
\* optimizer, T_0, T_mult = 1, eta_max, T_up).  T_up < T_0, as get_lr divides
\* by T_i - T_up.  lrs[e + 1] is the learning rate get_lr returned at epoch e.
InitSched ==
    /\ pc = "sched"
    /\ \E T_0 \in 1 .. MaxT0 : \E T_up \in 0 .. T_0 - 1 :
       \E base \in LrValues : \E eta_max \in LrValues :
         /\ scheduler = NewScheduler("scheduler", AdamW("optimizer", base),
                                     T_0, 1, eta_max, T_up, <<1, 2>>)
         /\ optimizer = SetLr(AdamW("optimizer", base), scheduler)
    /\ lrs = <<optimizer.lr>>
    /\ epoch = 0
    /\ acc = 0
    /\ best_acc = 0
    /\ model = FreshModel
    /\ files = [f \in FileNames |-> NoFile]
    /\ finetune_optimizer = NoObj
    /\ finetune_scheduler = NoObj
    /\ saves = 0
    /\ lastSave = NoName
    /\ loadedFrom = NoName
    /\ maxAcc = -1
    /\ argmaxModel = FreshModel
    /\ img = <<>>
    /\ cutout = NoObj
    /\ out = <<>>

\* scheduler.step()
Step ==
    /\ pc = "sched"
    /\ scheduler.last_epoch < 2 * scheduler.T_0 + ExtraSteps
    /\ scheduler' = StepEpoch(scheduler)
    /\ optimizer' = SetLr(optimizer, scheduler')
    /\ lrs' = Append(lrs, optimizer'.lr)
    /\ UNCHANGED <<pc, trainVars, cutoutVars>>

NextSched == Step

SpecSched == InitSched /\ [][NextSched]_vars

(***************************************************************************)
(* Cutout                                                                  *)
(***************************************************************************)
Max(a, b) == IF a >= b THEN a ELSE b
Min(a, b) == IF a <= b THEN a ELSE b

\* a C x h x w tensor; px[<<c, r, col>>] is a pixel
Pixels(C, h, w) == (0 .. C - 1) \X (0 .. h - 1) \X (0 .. w - 1)
Image(C, h, w) ==
    [C |-> C, h |-> h, w |-> w,
     px |-> [p \in Pixels(C, h, w) |-> 1 + p[1] + 2 * p[2] + 3 * p[3]]]

\* variant: the upper bounds include the row and column at + length // 2
CutBounds_Inclusive(h, w, length, y, x) ==
    [y1 |-> Max(0, y - length \div 2),
     y2 |-> Min(h, y + length \div 2 + 1),
     x1 |-> Max(0, x - length \div 2),
     x2 |-> Min(w, x + length \div 2 + 1)]

\* lines 137-140: the bounds of the slice mask[y1:y2, x1:x2]
CutBounds(h, w, length, y, x) ==
    [y1 |-> Max(0, y - length \div 2),
     y2 |-> Min(h, y + length \div 2),
     x1 |-> Max(0, x - length \div 2),
     x2 |-> Min(w, x + length \div 2)]

\* lines 132 and 142: mask = ones(h, w); mask[y1:y2, x1:x2] = 0
Mask(h, w, b) ==
    [q \in (0 .. h - 1) \X (0 .. w - 1) |->
        IF q[1] >= b.y1 /\ q[1] < b.y2 /\ q[2] >= b.x1 /\ q[2] < b.x2 THEN 0 ELSE 1]

\* line 143: img * mask.unsqueeze(0)
ApplyMask(im, mask) ==
    [im EXCEPT !.px = [p \in DOMAIN im.px |-> im.px[p] * mask[<<p[2], p[3]>>]]]

InitCutout ==
    /\ pc = "cutout"
    /\ \E C \in 1 .. MaxChan : \E h \in 1 .. MaxSide : \E w \in 1 .. MaxSide :
         img = Image(C, h, w)
    /\ \E length \in 0 .. MaxLength : cutout = [length |-> length, y |-> -1, x |-> -1]
    /\ out = <<>>
    /\ epoch = 0
    /\ acc = 0
    /\ best_acc = 0
    /\ model = FreshModel
    /\ files = [f \in FileNames |-> NoFile]
    /\ optimizer = NoObj
    /\ scheduler = NoObj
    /\ finetune_optimizer = NoObj
    /\ finetune_scheduler = NoObj
    /\ saves = 0
    /\ lastSave = NoName
    /\ loadedFrom = NoName
    /\ maxAcc = -1
    /\ argmaxModel = FreshModel
    /\ lrs = <<>>

\* Cutout.__call__(img): y and x are torch.randint(h), torch.randint(w)
CutoutCall ==
    /\ pc = "cutout"
    /\ \E y \in 0 .. img.h - 1 : \E x \in 0 .. img.w - 1 :
         /\ cutout' = [cutout EXCEPT !.y = y, !.x = x]
         /\ out' = ApplyMask(img, Mask(img.h, img.w,
                                       CutBounds(img.h, img.w, cutout.length, y, x)))
    /\ pc' = "cutout_done"
    /\ UNCHANGED <<img, trainVars, optimizer, scheduler, lrs>>

NextCutout == CutoutCall

SpecCutout == InitCutout /\ [][NextCutout]_vars

(***************************************************************************)
(* Properties of the training run                                          *)
(***************************************************************************)
\* between two epochs, or after the last one
EpochBoundary == pc \in {"train", "load", "ft_setup", "ft_train", "done"}
InFinetune == pc \in {"ft_train", "ft_validate", "ft_step", "ft_check", "done"}
\* fine-tuning epochs trained / fine-tuning scheduler steps made so far
FtTrained ==
    IF pc = "ft_train" THEN epoch
    ELSE IF pc \in {"ft_validate", "ft_step", "ft_check"} THEN epoch + 1
    ELSE IF pc = "done" THEN fine_tune_epochs ELSE 0
FtStepped ==
    IF pc \in {"ft_train", "ft_validate", "ft_step"} THEN epoch
    ELSE IF pc = "ft_check" THEN epoch + 1
    ELSE IF pc = "done" THEN fine_tune_epochs ELSE 0

\* C1: between epochs, once a checkpoint has been written, the file of the
\* latest write holds the parameters the model had when the (first) epoch
\* with the highest validation accuracy so far was validated, and best_acc
\* is that highest accuracy.
C1_LatestWriteIsBest ==
    (EpochBoundary /\ saves > 0) =>
        /\ lastSave \in FileNames
        /\ files[lastSave] = argmaxModel
        /\ best_acc = maxAcc

\* C1 witness: the run is over, the best epoch was a fine-tuning epoch that
\* was not the last one, and initial training had written a checkpoint too.
C1_Witness ==
    /\ pc = "done"
    /\ saves >= 2
    /\ lastSave = FINETUNED_BEST
    /\ files[lastSave] # model
    /\ files[WEIGHTS_BEST] \notin {NoFile, EarlierRun}

\* C2: when the first fine-tuning epoch begins, the model's parameters are
\* those of the initial-training epoch with the highest validation accuracy.
C2_FinetuneStartsFromBest ==
    (pc = "ft_train" /\ epoch = 0) => model = argmaxModel

\* C3: best_acc starts at 0; a checkpoint is written in an epoch exactly when
\* that epoch's accuracy is strictly greater than best_acc, and then best_acc
\* becomes that accuracy; otherwise best_acc and the files stay as they are,
\* also across the load and the fine-tuning setup.
C3_WriteIffImproved ==
    /\ best_acc = 0
    /\ [][ IF pc \in {"check", "ft_check"}
           THEN IF acc > best_acc
                THEN /\ saves' = saves + 1
                     /\ best_acc' = acc
                     /\ lastSave' \in FileNames
                     /\ files'[lastSave'] = model
                ELSE UNCHANGED <<saves, best_acc, files, lastSave>>
           ELSE UNCHANGED <<saves, best_acc, files, lastSave>> ]_vars

\* C3 witness: an initial-training epoch has just ended whose accuracy
\* equalled the best so far, and the checkpoint is still the earlier one.
C3_Witness ==
    /\ pc = "train"
    /\ epoch >= 2
    /\ acc = best_acc
    /\ saves = 1
    /\ files[WEIGHTS_BEST] # model
    /\ files[WEIGHTS_BEST] = argmaxModel

\* C4 as stated: there is one file that every write targets and that the
\* load reads.
C4_SingleFile ==
    \E f \in FileNames : lastSave \in {NoName, f} /\ loadedFrom \in {NoName, f}

\* C4 amended: every write of initial training targets
\* resnet152_cifar10_weights_best.pt, the load reads that file, and every
\* write of fine-tuning targets resnet152_cifar10_finetuned_best.pt and
\* leaves the first file as it was.
C4_FilePerPhase ==
    [][ /\ (pc = "check" /\ saves' # saves) =>
              /\ lastSave' = WEIGHTS_BEST
              /\ files'[WEIGHTS_BEST] = model
              /\ files'[FINETUNED_BEST] = files[FINETUNED_BEST]
        /\ (pc = "load" /\ pc' # "failed") =>
              /\ loadedFrom' = WEIGHTS_BEST
              /\ model' = files[WEIGHTS_BEST]
        /\ (pc = "ft_check" /\ saves' # saves) =>
              /\ lastSave' = FINETUNED_BEST
              /\ files'[FINETUNED_BEST] = model
              /\ files'[WEIGHTS_BEST] = files[WEIGHTS_BEST] ]_vars

\* C4 witness: both phases have written, each to its own file.
C4_Witness ==
    /\ pc = "done"
    /\ lastSave = FINETUNED_BEST
    /\ loadedFrom = WEIGHTS_BEST
    /\ files[WEIGHTS_BEST] \notin {NoFile, EarlierRun}
    /\ files[FINETUNED_BEST] # files[WEIGHTS_BEST]

\* C8 as stated: fine-tuning trains through `optimizer` and steps
\* `scheduler`, whose epoch counter continues from 70.
C8_SameOptimizerAndScheduler ==
    InFinetune =>
        /\ optimizer.epochs = num_epochs + FtTrained
        /\ scheduler.last_epoch = num_epochs + FtStepped

\* C8 amended: the one global model is reused (fine-tuning continues from the
\* parameters loaded into it), but fine-tuning trains it through
\* finetune_optimizer and steps finetune_scheduler, whose epoch counter
\* starts at 0; optimizer and scheduler stay where initial training left
\* them, at 70.
C8_SeparateOptimizerAndScheduler ==
    InFinetune =>
        /\ optimizer.epochs = num_epochs
        /\ scheduler.last_epoch = num_epochs
        /\ scheduler.optimizer = optimizer.name
        /\ finetune_optimizer.name # optimizer.name
        /\ finetune_scheduler.name # scheduler.name
        /\ finetune_scheduler.optimizer = finetune_optimizer.name
        /\ finetune_optimizer.epochs = FtTrained
        /\ finetune_scheduler.last_epoch = FtStepped
        /\ model = files[WEIGHTS_BEST] \o [i \in 1 .. FtTrained |-> finetune_optimizer.name]

\* C8 witness: fine-tuning is over, 15 steps on the fine-tuning scheduler.
C8_Witness ==
    /\ pc = "done"
    /\ finetune_scheduler.last_epoch = fine_tune_epochs
    /\ finetune_optimizer.epochs = fine_tune_epochs

\* what holds of the load and of what follows it, state by state
LoadOutcome ==
    /\ pc = "failed" =>
          /\ maxAcc = 0
          /\ saves = 0
          /\ files[WEIGHTS_BEST] = NoFile
          /\ optimizer.epochs = num_epochs
          /\ finetune_optimizer = NoObj
    /\ pc = "ft_setup" =>
          IF maxAcc > 0
          THEN saves > 0 /\ model = files[WEIGHTS_BEST] /\ model = argmaxModel
                         /\ Head(model) = optimizer.name
          ELSE saves = 0 /\ model = EarlierRun
    /\ finetune_optimizer # NoObj =>
          /\ loadedFrom # NoName
          /\ optimizer.epochs = num_epochs
    /\ pc = "done" => finetune_optimizer.epochs = fine_tune_epochs

C10_ConstantLr ==
    /\ scheduler.eta_max = scheduler.base_lr
    /\ optimizer.lr = <<1, 1000>>
    /\ finetune_optimizer # NoObj =>
          /\ finetune_scheduler.eta_max = finetune_scheduler.base_lr
          /\ finetune_optimizer.lr = <<1, 10000>>

\* C10 witness: all 70 + 15 scheduler steps have been made.
C10_Witness ==
    /\ pc = "done"
    /\ scheduler.last_epoch = num_epochs
    /\ finetune_scheduler.last_epoch = fine_tune_epochs

(***************************************************************************)
(* Properties of the scheduler                                             *)
(***************************************************************************)
\* the learning rate returned at epoch e, for the epochs e stepped so far
Recorded(e) == e >= 0 /\ e + 1 <= Len(lrs)
LrAt(e) == lrs[e + 1]
\* the constructor's arguments
BaseLr == scheduler.base_lr
EtaMax == scheduler.base_eta_max

\* C5: with T_mult = 1 the schedule restarts at the end of a cycle: the
\* learning rate at epoch e + T_0 is the one at epoch e.
C5_Restarts ==
    pc = "sched" =>
        \A e \in 0 .. Len(lrs) :
            Recorded(e + scheduler.T_0) => LrAt(e + scheduler.T_0) = LrAt(e)

\* the warmup is the line from base_lr at epoch 0 towards eta_max at T_up
WarmupLinear ==
    \A e \in 0 .. scheduler.T_up - 1 :
        Recorded(e) =>
            RatMul(LrAt(e), <<scheduler.T_up, 1>>)
              = RatAdd(RatMul(BaseLr, <<scheduler.T_up, 1>>),
                       RatMul(RatSub(EtaMax, BaseLr), <<e, 1>>))

\* the learning rate depends on the epoch index and the constructor's
\* arguments only, not on the steps made before
EpochAlone ==
    \A e \in 0 .. Len(lrs) :
        Recorded(e) =>
            LrAt(e) = IF e < scheduler.T_up
                      THEN RatAdd(BaseLr, Rat((EtaMax[1] * BaseLr[2] - BaseLr[1] * EtaMax[2]) * e,
                                              EtaMax[2] * BaseLr[2] * scheduler.T_up))
                      ELSE RatAdd(BaseLr,
                                  RatMul(RatSub(EtaMax, BaseLr),
                                         RatMul(<<1, 2>>,
                                                RatAdd(<<1, 1>>,
                                                       CosPi(e - scheduler.T_up,
                                                             scheduler.T_0 - scheduler.T_up)))))

\* from T_up to T_0 the learning rate does not increase, its value at T_up
\* is the highest of the cycle and its value at T_0 the lowest
DecayToFloor ==
    /\ \A e \in scheduler.T_up .. scheduler.T_0 - 1 :
          Recorded(e + 1) => RatLeq(LrAt(e + 1), LrAt(e))
    /\ \A e \in 0 .. scheduler.T_0 :
          /\ (Recorded(e) /\ Recorded(scheduler.T_up)) => RatLeq(LrAt(e), LrAt(scheduler.T_up))
          /\ Recorded(scheduler.T_0) => RatLeq(LrAt(scheduler.T_0), LrAt(e))

C7_SquareOfSideLength ==
    pc = "cutout_done" =>
        \E r0 \in 0 .. img.h : \E c0 \in 0 .. img.w :
            LET rows == r0 .. r0 + cutout.length - 1
                cols == c0 .. c0 + cutout.length - 1
            IN  /\ rows \subseteq 0 .. img.h - 1
                /\ cols \subseteq 0 .. img.w - 1
                /\ \A p \in DOMAIN img.px :
                      out.px[p] = IF p[2] \in rows /\ p[3] \in cols THEN 0 ELSE img.px[p]

\* rows / columns in which the call has zeroed a pixel of channel c
ZeroRows(c) == { p[2] : p \in { q \in DOMAIN out.px : q[1] = c /\ out.px[q] = 0 } }
ZeroCols(c) == { p[3] : p \in { q \in DOMAIN out.px : q[1] = c /\ out.px[q] = 0 } }

\* C7 amended: the call zeroes, in all channels, exactly the pixels of the
\* image that lie in the square of side 2 * (length // 2) around the centre
\* (rows y - length // 2 .. y + length // 2 - 1, columns likewise) and leaves
\* every other pixel unchanged; the zeroed region has at most length rows and
\* columns, and is a length x length square when length is even and the
\* centre is at least length / 2 away from every border.
C7_ClippedSquare ==
    pc = "cutout_done" =>
        LET k == cutout.length \div 2
            InSquare(r, c) == /\ Abs(2 * (r - cutout.y) + 1) < 2 * k
                              /\ Abs(2 * (c - cutout.x) + 1) < 2 * k
        IN  /\ DOMAIN out.px = DOMAIN img.px
            /\ \A p \in DOMAIN img.px :
                  out.px[p] = IF InSquare(p[2], p[3]) THEN 0 ELSE img.px[p]
            /\ \A c \in 0 .. img.C - 1 :
                  /\ Cardinality(ZeroRows(c)) <= cutout.length
                  /\ Cardinality(ZeroCols(c)) <= cutout.length
                  /\ ( /\ cutout.length = 2 * k
                       /\ k <= cutout.y /\ cutout.y <= img.h - k
                       /\ k <= cutout.x /\ cutout.x <= img.w - k )
                     => /\ Cardinality(ZeroRows(c)) = cutout.length
                        /\ Cardinality(ZeroCols(c)) = cutout.length

\* C7 witness: the square around the centre sticks out of the image at the
\* top, and the call has zeroed some pixels and kept others.
C7_Witness ==
    /\ pc = "cutout_done"
    /\ cutout.length >= 2
    /\ cutout.y < cutout.length \div 2
    /\ \E p \in DOMAIN out.px : out.px[p] = 0
    /\ \E p \in DOMAIN out.px : out.px[p] # 0 /\ out.px[p] = img.px[p]

====
